---- MODULE Spec2Model ----
(***************************************************************************)
(* A model of frontend/server.js: the start-up sequence (dotenv.config,    *)
(* the PORT constant, app.listen and its callback) and the request         *)
(* pipeline the file mounts on the express application (cors,              *)
(* express.json, express.static, the two GET routes and the framework's    *)
(* final handler).                                                         *)
(*                                                                         *)
(* JavaScript values are tagged records, so that a string, a number and    *)
(* undefined are never confused: Str(<<"4","3","2","1">>) is the string    *)
(* "4321", Num(3000) the number 3000.  Strings whose characters matter     *)
(* (environment values, the log line) are sequences of one-character       *)
(* strings.                                                                *)
(***************************************************************************)
EXTENDS Integers, Sequences, FiniteSets

VARIABLES
    pc,        \* position of the main module / process state
    shellEnv,  \* environment the process was started with (never written)
    envFile,   \* the .env file in the working directory, or NoFile
    env,       \* process.env
    PORT,      \* the module constant PORT (Undefined until line 26 has run)
    taken,     \* TRUE when another process already holds the address
    attempts,  \* number of bind attempts made by this process
    bound,     \* the address the server socket is bound to, or Unbound
    log,       \* lines written by console.log
    fs,        \* contents of the static root  <__dirname>/src
    conns      \* requests being handled, each with its response so far

vars == <<pc, shellEnv, envFile, env, PORT, taken, attempts, bound, log, fs, conns>>

startupVars == <<pc, shellEnv, envFile, env, PORT, taken, attempts, bound, log>>

-----------------------------------------------------------------------------
(* JavaScript values *)

Str(s) == [str |-> s]

Num(n) == [num |-> n]

Undefined == [undef |-> TRUE]

NaN == [nan |-> TRUE]

IsStr(v) == DOMAIN v = {"str"}

IsNum(v) == DOMAIN v = {"num"}

Digits == <<"0", "1", "2", "3", "4", "5", "6", "7", "8", "9">>

IsDigit(c) == \E i \in 1..10 : Digits[i] = c

DigitVal(c) == (CHOOSE i \in 1..10 : Digits[i] = c) - 1

RECURSIVE DecimalValue(_)
DecimalValue(s) ==
    IF s = <<>> THEN 0
    ELSE 10 * DecimalValue(SubSeq(s, 1, Len(s) - 1)) + DigitVal(s[Len(s)])

\* Number(x) for the values that occur: a number is itself, the empty string
\* is 0, a string of decimal digits is its value, any other string is NaN.
Number(v) ==
    IF IsNum(v) THEN v
    ELSE IF IsStr(v) /\ \A i \in 1..Len(v.str) : IsDigit(v.str[i])
         THEN Num(DecimalValue(v.str))
         ELSE NaN

RECURSIVE DecimalDigits(_)
DecimalDigits(n) ==
    IF n < 10 THEN <<Digits[n + 1]>>
    ELSE DecimalDigits(n \div 10) \o <<Digits[(n % 10) + 1]>>

\* `${v}` of a template literal
TemplateString(v) == IF IsStr(v) THEN v.str ELSE DecimalDigits(v.num)

\* JavaScript truthiness of a value that is undefined, a string or a number
Truthy(v) ==
    /\ v # Undefined
    /\ IsStr(v) => v.str # <<>>
    /\ IsNum(v) => v.num # 0

\* a || b
OrElseNumeric(a, b) == IF Truthy(a) /\ Number(a) # NaN THEN a ELSE b

OrElse(a, b) == IF Truthy(a) THEN a ELSE b

-----------------------------------------------------------------------------
(* Start-up: lines 7, 26, 28-30 *)

DefaultPort == 3000

\* the values given to PORT, in the shell or in the .env file
EnvValues ==
    { <<>>,
      <<"4", "3", "2", "1">>,
      <<"5", "0", "0", "0">>,
      <<"0">>,
      <<"a", "b", "c">>,
      <<"7", "0", "0", "0", "0">> }

FileValues == { <<"5", "0", "0", "0">>, <<"8", "0", "8", "0">> }

EnvKeys == {"PORT", "API_URL"}

NoFile == [nofile |-> TRUE]

\* process.env.KEY
Lookup(e, k) == IF k \in DOMAIN e THEN Str(e[k]) ELSE Undefined

\* dotenv.config(): every key of the parsed file that process.env does not
\* already have is added; a key that is present is left as it is.  A missing
\* file is reported in the return value, which line 7 ignores.
DotenvOverride(e, parsed) ==
    [k \in DOMAIN e \cup DOMAIN parsed |-> IF k \in DOMAIN parsed THEN parsed[k] ELSE e[k]]

DotenvPopulate(e, parsed) ==
    [k \in DOMAIN e \cup DOMAIN parsed |-> IF k \in DOMAIN e THEN e[k] ELSE parsed[k]]

DotenvConfig ==
    /\ pc = "start"
    /\ env' = IF envFile = NoFile THEN env ELSE DotenvPopulate(env, envFile)
    /\ pc' = "loaded"
    /\ UNCHANGED <<shellEnv, envFile, PORT, taken, attempts, bound, log, fs, conns>>

\* const PORT = process.env.PORT || 3000
ResolvePortIgnoresEnv(e) == Num(DefaultPort)

ResolvePort(e) == OrElse(Lookup(e, "PORT"), Num(DefaultPort))

DefinePort ==
    /\ pc = "loaded"
    /\ PORT' = ResolvePort(env)
    /\ pc' = "resolved"
    /\ UNCHANGED <<shellEnv, envFile, env, taken, attempts, bound, log, fs, conns>>

Unbound == [unbound |-> TRUE]

Tcp(n) == [tcp |-> n]

Pipe(s) == [pipe |-> s]

\* net.Server.listen: a string that Number() does not turn into a number >= 0
\* is the path of a pipe, anything else is a TCP port.
IsPipeName(v) == IsStr(v) /\ (Number(v) = NaN \/ Number(v).num < 0)

\* validatePort: an empty string is no port, nor is a number outside 0..65535
ValidPort(v) == ~(IsStr(v) /\ v.str = <<>>) /\ Number(v).num \in 0..(2^16 - 1)

\* ports the system hands out when asked for port 0
EphemeralPorts == {49152, 49153}

\* the addresses a successful listen(v) may be bound to
ListenAddresses(v) ==
    IF IsPipeName(v) THEN {Pipe(v.str)}
    ELSE IF Number(v).num = 0 THEN {Tcp(p) : p \in EphemeralPorts}
    ELSE {Tcp(Number(v).num)}

StartupLine(p) == <<"Server running on port ">> \o TemplateString(p)

\* app.listen(PORT, callback): the port is validated and the socket bound
\* inside the call; the outcome is announced later by an event.
ListenLogsAtCall ==
    /\ pc = "resolved"
    /\ attempts' = attempts + 1
    /\ log' = Append(log, StartupLine(PORT))
    /\ IF taken
       THEN pc' = "bindError" /\ UNCHANGED bound
       ELSE pc' = "listening" /\ bound' \in ListenAddresses(PORT)
    /\ UNCHANGED <<shellEnv, envFile, env, PORT, taken, fs, conns>>

Listen ==
    /\ pc = "resolved"
    /\ IF ~IsPipeName(PORT) /\ ~ValidPort(PORT)
       THEN \* ERR_SOCKET_BAD_PORT is thrown by listen itself
            /\ pc' = "crashed"
            /\ UNCHANGED <<attempts, bound>>
       ELSE /\ attempts' = attempts + 1
            /\ IF taken
               THEN pc' = "bindError" /\ UNCHANGED bound
               ELSE pc' = "bound" /\ bound' \in ListenAddresses(PORT)
    /\ UNCHANGED <<shellEnv, envFile, env, PORT, taken, log, fs, conns>>

\* the callback of line 28, run once for the 'listening' event
OnListening ==
    /\ pc = "bound"
    /\ log' = Append(log, StartupLine(PORT))
    /\ pc' = "listening"
    /\ UNCHANGED <<shellEnv, envFile, env, PORT, taken, attempts, bound, fs, conns>>

\* the 'error' event of a failed bind has no listener: the process dies
OnListenError ==
    /\ pc = "bindError"
    /\ pc' = "crashed"
    /\ UNCHANGED <<shellEnv, envFile, env, PORT, taken, attempts, bound, log, fs, conns>>

-----------------------------------------------------------------------------
(* The static root and the requests *)

\* a path segment: dot is TRUE when the segment starts with "."
Name(dot, stem, ext) == [dot |-> dot, stem |-> stem, ext |-> ext]

IndexHtml == Name(FALSE, "index", "html")

VerifyHtml == Name(FALSE, "verify", "html")

VerifyPlain == Name(FALSE, "verify", "")

StyleCss == Name(FALSE, "style", "css")

DotEnv == Name(TRUE, "env", "")

Assets == Name(FALSE, "assets", "")

File(bytes) == [file |-> bytes]

Dir == [dir |-> TRUE]

IsFile(e) == DOMAIN e = {"file"}

\* the trees the static root may hold; a tree maps a relative path (a
\* sequence of segments) to a file with its bytes or to a directory
MinimalRoot ==
    [p \in {<<IndexHtml>>, <<VerifyHtml>>} |->
        IF p = <<IndexHtml>> THEN File(<<1, 2>>) ELSE File(<<3, 4>>)]

FullRoot ==
    [p \in {<<IndexHtml>>, <<VerifyHtml>>, <<VerifyPlain>>, <<StyleCss>>,
            <<DotEnv>>, <<Assets>>} |->
        CASE p = <<IndexHtml>> -> File(<<1, 2, 5>>)
          [] p = <<VerifyHtml>> -> File(<<3, 4>>)
          [] p = <<VerifyPlain>> -> File(<<6>>)
          [] p = <<StyleCss>> -> File(<<7, 8>>)
          [] p = <<DotEnv>> -> File(<<9>>)
          [] p = <<Assets>> -> Dir]

NoIndexRoot ==
    [p \in {<<VerifyHtml>>, <<StyleCss>>} |->
        IF p = <<VerifyHtml>> THEN File(<<3, 4>>) ELSE File(<<7, 8>>)]

Roots == {MinimalRoot, FullRoot, NoIndexRoot}

\* a request path: its segments, and whether it ends with "/"
Path(segs, slash) == [segs |-> segs, slash |-> slash]

RootPath == Path(<<>>, TRUE)

VerifyPath == Path(<<VerifyPlain>>, FALSE)

Paths ==
    { RootPath, VerifyPath, Path(<<StyleCss>>, FALSE), Path(<<DotEnv>>, FALSE),
      Path(<<Assets>>, FALSE) }

NoBody == [nobody |-> TRUE]

Body(chars) == [chars |-> chars]

\* request bodies, as sequences of characters; NoBody is a request that
\* announces no body (no Content-Length, no Transfer-Encoding)
Bodies == { NoBody, Body(<<>>), Body(<<"{", "}">>), Body(<<"{">>), Body(<<"1">>) }

Methods == {"GET", "POST", "OPTIONS"}

ContentTypes == {"none", "application/json", "text/plain"}

\* cond: "fresh" is a conditional request (If-None-Match, If-Modified-Since)
\* whose validators match the file as it is
Conds == {"none", "fresh"}

Requests ==
    { r \in [method : Methods, path : Paths, type : ContentTypes,
             body : Bodies, cond : Conds] :
        /\ r.cond # "none" => r.method = "GET" /\ r.body = NoBody
        /\ r.body = NoBody <=> r.type = "none"
        /\ r.type = "text/plain" => r.body = Body(<<"{">>) /\ r.path = RootPath
        /\ r.method = "OPTIONS" => r.path = RootPath /\ r.body \in {NoBody, Body(<<"{">>)}
        /\ r.method = "POST" => r.path = RootPath
        /\ r.body \in {Body(<<>>), Body(<<"1">>)} => r.method = "POST" }

-----------------------------------------------------------------------------
(* The application: lines 9-24 *)

\* the layers in the order lines 11, 12, 17, 19 and 22 mount them
AppStackCorsLate == <<"json", "cors", "static", "getRoot", "getVerify">>

AppStack == <<"cors", "json", "static", "getRoot", "getVerify">>

FinalAt == Len(AppStack) + 1

SentAt == Len(AppStack) + 2

\* a layer mounted with app.use matches every request; a route mounted with
\* app.get matches GET requests for its path (HEAD, which is routed like
\* GET, is not among Methods)
MatchesAnyPath(layer, req) ==
    CASE layer = "getRoot" -> req.method = "GET"
      [] layer = "getVerify" -> req.method = "GET" /\ req.path.segs = <<VerifyPlain>>
      [] OTHER -> TRUE

Matches(layer, req) ==
    CASE layer = "getRoot" -> req.method = "GET" /\ req.path.segs = <<>>
      [] layer = "getVerify" -> req.method = "GET" /\ req.path.segs = <<VerifyPlain>>
      [] OTHER -> TRUE

\* next(): the first layer after i that matches, the final handler if none
NextLayer(req, i) ==
    IF \E j \in (i + 1)..Len(AppStack) : Matches(AppStack[j], req)
    THEN CHOOSE j \in (i + 1)..Len(AppStack) :
            /\ Matches(AppStack[j], req)
            /\ \A k \in (i + 1)..(j - 1) : ~Matches(AppStack[k], req)
    ELSE FinalAt

NoHeaders == [h \in {} |-> ""]

SetHeader(hs, k, v) == [h \in DOMAIN hs \cup {k} |-> IF h = k THEN v ELSE hs[h]]

RemoveHeaders(hs, ks) == [h \in DOMAIN hs \ ks |-> hs[h]]

Bytes(b) == [bytes |-> b]

\* the page the framework writes for a status
Doc(status) == [doc |-> status]

NoContent == Bytes(<<>>)

\* the response of a new request: nothing written yet
FreshResponse == [status |-> 0, headers |-> NoHeaders, body |-> NoContent]

NewConn(req) ==
    [req |-> req, at |-> NextLayer(req, 0), err |-> 0, parsed |-> Undefined,
     ran |-> <<>>, res |-> FreshResponse]

\* the layer's work is done and it calls next()
PassOn(c, res) ==
    [c EXCEPT !.at = NextLayer(c.req, c.at), !.res = res,
              !.ran = Append(c.ran, AppStack[c.at])]

\* the layer calls next(err)
Fail(c, status) ==
    [c EXCEPT !.at = FinalAt, !.err = status, !.ran = Append(c.ran, AppStack[c.at])]

\* the layer ends the response itself
Reply(c, res) ==
    [c EXCEPT !.at = SentAt, !.res = res, !.ran = Append(c.ran, AppStack[c.at])]

At(c, layer) == c.at \in 1..Len(AppStack) /\ AppStack[c.at] = layer

\* a connection is accepted and its request handed to the application
Accept(maxConns) ==
    /\ pc = "listening"
    /\ Cardinality(conns) < maxConns
    /\ \E req \in Requests : conns' = conns \cup {NewConn(req)}
    /\ UNCHANGED <<startupVars, fs>>

\* cors() with its defaults: any origin; a preflight is answered here
CorsLayer(c) ==
    LET allowed == SetHeader(c.res.headers, "Access-Control-Allow-Origin", "*")
    IN  IF c.req.method = "OPTIONS"
        THEN Reply(c, [status |-> 204,
                       headers |-> SetHeader(
                           SetHeader(allowed, "Access-Control-Allow-Methods",
                                     "GET,HEAD,PUT,PATCH,POST,DELETE"),
                           "Content-Length", "0"),
                       body |-> NoContent])
        ELSE PassOn(c, [c.res EXCEPT !.headers = allowed])

Cors ==
    /\ \E c \in conns :
        /\ At(c, "cors")
        /\ conns' = (conns \ {c}) \cup {CorsLayer(c)}
    /\ UNCHANGED <<startupVars, fs>>

SyntaxError == [syntaxError |-> TRUE]

\* JSON.parse on the texts of Bodies
JsonParse(chars) ==
    CASE chars = <<"{", "}">> -> [object |-> TRUE]
      [] chars = <<"[", "]">> -> [array |-> TRUE]
      [] chars # <<>> /\ (\A i \in 1..Len(chars) : IsDigit(chars[i])) ->
            Num(DecimalValue(chars))
      [] OTHER -> SyntaxError

\* express.json() with its defaults: only a request that announces a body of
\* type application/json is read; an empty body is {}; in strict mode the
\* text must start an object or an array.  parsed is req.body of a request
\* whose body was read.
JsonLayerSwallow(c) == PassOn(c, c.res)

JsonLayer(c) ==
    IF c.req.body = NoBody \/ c.req.type # "application/json"
    THEN PassOn(c, c.res)
    ELSE LET chars == c.req.body.chars
         IN  IF chars = <<>>
             THEN PassOn([c EXCEPT !.parsed = [object |-> TRUE]], c.res)
             ELSE IF chars[1] \notin {"{", "["} \/ JsonParse(chars) = SyntaxError
                  THEN Fail(c, 400)
                  ELSE PassOn([c EXCEPT !.parsed = JsonParse(chars)], c.res)

JsonParser ==
    /\ \E c \in conns :
        /\ At(c, "json")
        /\ conns' = (conns \ {c}) \cup {JsonLayer(c)}
    /\ UNCHANGED <<startupVars, fs>>

\* the media type the file's extension stands for (the charset parameter
\* is left out)
MimeAlwaysHtml(name) == "text/html"

Mime(name) ==
    CASE name.ext = "html" -> "text/html"
      [] name.ext = "css" -> "text/css"
      [] OTHER -> "application/octet-stream"

\* send: the file goes out whole, or not at all when the client's copy is
\* fresh
SendFile(c, segs, entry) ==
    LET typed == SetHeader(c.res.headers, "Content-Type", Mime(segs[Len(segs)]))
    IN  IF c.req.cond = "fresh"
        THEN [status |-> 304,
              headers |-> RemoveHeaders(typed, {"Content-Type"}),
              body |-> NoContent]
        ELSE [status |-> 200, headers |-> typed, body |-> Bytes(entry.file)]

\* express.static(root) with its defaults: GET only, dotfiles ignored, a
\* path ending in "/" stands for its index.html, a directory is redirected
\* to, and whatever is not found is passed on
StaticLayer(c, tree) ==
    LET segs == c.req.path.segs
        target == IF c.req.path.slash THEN Append(segs, IndexHtml) ELSE segs
    IN  IF c.req.method # "GET" THEN PassOn(c, c.res)
        ELSE IF \E i \in 1..Len(segs) : segs[i].dot THEN PassOn(c, c.res)
        ELSE IF target \notin DOMAIN tree THEN PassOn(c, c.res)
        ELSE IF IsFile(tree[target]) THEN Reply(c, SendFile(c, target, tree[target]))
        ELSE IF c.req.path.slash THEN PassOn(c, c.res)
        ELSE Reply(c, [status |-> 301,
                       headers |-> SetHeader(
                           SetHeader(c.res.headers, "Content-Type", "text/html"),
                           "Location", Path(segs, TRUE)),
                       body |-> Doc(301)])

ServeStaticBusy ==
    /\ \E c \in conns :
        /\ At(c, "static")
        /\ conns' = (conns \ {c}) \cup
                {IF \E d \in conns \ {c} : d.at = SentAt
                 THEN PassOn(c, c.res) ELSE StaticLayer(c, fs)}
    /\ UNCHANGED <<startupVars, fs>>

ServeStatic ==
    /\ \E c \in conns :
        /\ At(c, "static")
        /\ conns' = (conns \ {c}) \cup {StaticLayer(c, fs)}
    /\ UNCHANGED <<startupVars, fs>>

\* res.sendFile(path.join(__dirname, "src", name)): a missing file is an
\* error handed to next
RouteLayerWrongDir(c, tree, name) == Fail(c, 404)

RouteLayer(c, tree, name) ==
    IF <<name>> \in DOMAIN tree /\ IsFile(tree[<<name>>])
    THEN Reply(c, SendFile(c, <<name>>, tree[<<name>>]))
    ELSE Fail(c, 404)

GetRoot ==
    /\ \E c \in conns :
        /\ At(c, "getRoot")
        /\ conns' = (conns \ {c}) \cup {RouteLayer(c, fs, IndexHtml)}
    /\ UNCHANGED <<startupVars, fs>>

GetVerify ==
    /\ \E c \in conns :
        /\ At(c, "getVerify")
        /\ conns' = (conns \ {c}) \cup {RouteLayer(c, fs, VerifyHtml)}
    /\ UNCHANGED <<startupVars, fs>>

\* the framework's last resort: 404 when no layer answered, the error's
\* status when a layer failed; the headers set so far stay
FinalLayer(c) ==
    [c EXCEPT
        !.at = SentAt,
        !.ran = Append(c.ran, "final"),
        !.res = [status |-> IF c.err = 0 THEN 404 ELSE c.err,
                 headers |-> SetHeader(c.res.headers, "Content-Type", "text/html"),
                 body |-> Doc(IF c.err = 0 THEN 404 ELSE c.err)]]

FinalHandler ==
    /\ \E c \in conns :
        /\ c.at = FinalAt
        /\ conns' = (conns \ {c}) \cup {FinalLayer(c)}
    /\ UNCHANGED <<startupVars, fs>>

\* the response has gone out and the connection is forgotten
Close ==
    /\ \E c \in conns :
        /\ c.at = SentAt
        /\ conns' = conns \ {c}
    /\ UNCHANGED <<startupVars, fs>>

ShellEnvs ==
    { [k \in {} |-> <<>>] } \cup { [k \in {"PORT"} |-> v] : v \in EnvValues }

EnvFiles ==
    { NoFile, [k \in {"API_URL"} |-> <<"a">>] }
      \cup { [k \in EnvKeys |-> IF k = "PORT" THEN v ELSE <<"a">>] : v \in FileValues }

Init ==
    /\ pc = "start"
    /\ shellEnv \in ShellEnvs
    /\ envFile \in EnvFiles
    /\ env = shellEnv
    /\ PORT = Undefined
    /\ taken \in BOOLEAN
    /\ attempts = 0
    /\ bound = Unbound
    /\ log = <<>>
    /\ fs \in Roots
    /\ conns = {}

Next ==
    \/ DotenvConfig
    \/ DefinePort
    \/ Listen
    \/ OnListening
    \/ OnListenError

Spec == Init /\ [][Next]_vars

MaxConns == 2

\* the process has started with an empty environment and is listening
InitServe ==
    /\ pc = "listening"
    /\ shellEnv = [k \in {} |-> <<>>]
    /\ envFile = NoFile
    /\ env = shellEnv
    /\ PORT = ResolvePort(env)
    /\ taken = FALSE
    /\ attempts = 1
    /\ bound \in ListenAddresses(PORT)
    /\ log = <<StartupLine(PORT)>>
    /\ fs \in Roots
    /\ conns = {}

NextServe ==
    \/ Accept(MaxConns)
    \/ Cors
    \/ JsonParser
    \/ ServeStatic
    \/ GetRoot
    \/ GetVerify
    \/ FinalHandler
    \/ Close

SpecServe == InitServe /\ [][NextServe]_vars

-----------------------------------------------------------------------------
(* Properties of the start-up, stated for Spec *)

Started == pc \in {"bound", "listening"}

\* a string of decimal digits that names a TCP port 1..65535
IsPortNumber(chars) ==
    /\ chars # <<>>
    /\ \A i \in 1..Len(chars) : IsDigit(chars[i])
    /\ DecimalValue(chars) \in 1..(2^16 - 1)

NonNumeric(chars) == \E i \in 1..Len(chars) : ~IsDigit(chars[i])

C7_NonNumericFallsBack ==
    (Started /\ "PORT" \in DOMAIN env /\ NonNumeric(env["PORT"]))
        => bound = Tcp(3000)

\* C7 amended: only the empty string falls back to 3000; a PORT that is not
\* a number is kept as it is, listen takes it for the path of a pipe, and
\* nothing listens on port 3000.
C7_OnlyEmptyFallsBack ==
    /\ (pc \notin {"start", "loaded"} /\ "PORT" \in DOMAIN env) =>
          /\ env["PORT"] = <<>> => PORT = Num(3000)
          /\ NonNumeric(env["PORT"]) => PORT = Str(env["PORT"])
    /\ (Started /\ "PORT" \in DOMAIN env) =>
          /\ env["PORT"] = <<>> => bound = Tcp(3000)
          /\ NonNumeric(env["PORT"]) => bound = Pipe(env["PORT"])

C7_Witness ==
    /\ pc = "listening"
    /\ "PORT" \in DOMAIN env
    /\ env["PORT"] = <<"a", "b", "c">>
    /\ bound = Pipe(<<"a", "b", "c">>)
    /\ log = << <<"Server running on port ", "a", "b", "c">> >>

\* the parts of C8 that concern the order of bind and log, and the failure
C8_BindThenLog ==
    /\ Len(log) <= 1
    /\ attempts <= 1
    /\ log # <<>> => (pc = "listening" /\ bound # Unbound /\ attempts = 1)
    /\ pc = "listening" => Len(log) = 1
    /\ taken => (pc # "listening" /\ bound = Unbound /\ log = <<>> /\ conns = {})
    /\ pc = "crashed" => (bound = Unbound /\ log = <<>>)

\* C8 as stated: start-up binds and then writes exactly one line that names
\* the bound port, or fails without a second attempt and without the line.
C8_LogNamesBoundPort ==
    /\ C8_BindThenLog
    /\ log # <<>> =>
          /\ DOMAIN bound = {"tcp"}
          /\ log[1] = <<"Server running on port ">> \o DecimalDigits(bound.tcp)

\* C8 amended: the line names the value of PORT, which is the bound port
\* whenever PORT names a TCP port from 1 to 65535 (with PORT=0 the system
\* picks the port, with a PORT that is no number a pipe is bound).
C8_LogNamesPORT ==
    /\ C8_BindThenLog
    /\ log # <<>> =>
          /\ log[1] = <<"Server running on port ">> \o
                        (IF IsStr(PORT) THEN PORT.str ELSE DecimalDigits(PORT.num))
          /\ (Number(PORT) # NaN /\ Number(PORT).num \in 1..(2^16 - 1)) =>
                /\ bound = Tcp(Number(PORT).num)
                /\ log[1] = <<"Server running on port ">> \o DecimalDigits(bound.tcp)

C8_Witness ==
    /\ pc = "listening"
    /\ ~taken
    /\ attempts = 1
    /\ bound = Tcp(3000)
    /\ log = << <<"Server running on port ", "3", "0", "0", "0">> >>

\* the bind failed because the address was taken, and the process is gone
C8_FailureWitness == pc = "crashed" /\ taken /\ attempts = 1 /\ log = <<>>

Resolved == pc \notin {"start", "loaded"}

FileHasPort == envFile # NoFile /\ "PORT" \in DOMAIN envFile

\* C9 as stated: a PORT entry of the .env file wins over a PORT of the
\* process environment, and 3000 is used only when neither has one.
C9_FileFirst ==
    Resolved =>
        /\ FileHasPort => PORT = Str(envFile["PORT"])
        /\ PORT = Num(3000) => (~FileHasPort /\ "PORT" \notin DOMAIN shellEnv)

\* C9 amended: the process environment comes first, then the .env file, then
\* 3000: a PORT the process was started with is never replaced by the file's
\* entry (and falls back to 3000 when it is empty), the file's entry is used
\* only when the process was started without PORT, and 3000 is used when
\* neither has a PORT.
C9_EnvironmentFirst ==
    Resolved =>
        /\ "PORT" \in DOMAIN shellEnv =>
              /\ env["PORT"] = shellEnv["PORT"]
              /\ PORT = IF shellEnv["PORT"] = <<>> THEN Num(3000) ELSE Str(shellEnv["PORT"])
        /\ ("PORT" \notin DOMAIN shellEnv /\ FileHasPort) => PORT = Str(envFile["PORT"])
        /\ ("PORT" \notin DOMAIN shellEnv /\ ~FileHasPort) => PORT = Num(3000)

C9_Witness ==
    /\ pc = "listening"
    /\ "PORT" \in DOMAIN shellEnv /\ shellEnv["PORT"] = <<"4", "3", "2", "1">>
    /\ FileHasPort /\ envFile["PORT"] = <<"5", "0", "0", "0">>
    /\ PORT = Str(<<"4", "3", "2", "1">>)
    /\ "API_URL" \in DOMAIN env

-----------------------------------------------------------------------------
(* Properties of the request pipeline, stated for SpecServe *)

Answered == {c \in conns : c.at = SentAt}

HasFile(segs) == segs \in DOMAIN fs /\ IsFile(fs[segs])

\* the request announces a JSON body that is not well-formed JSON
MalformedJson(req) ==
    /\ req.body # NoBody
    /\ req.type = "application/json"
    /\ req.body.chars \notin {<<>>, <<"{", "}">>, <<"[", "]">>, <<"1">>}

\* the request is one express.json() lets through
JsonAccepts(req) ==
    \/ req.body = NoBody
    \/ req.type # "application/json"
    \/ req.body.chars \in {<<>>, <<"{", "}">>, <<"[", "]">>}

EntryFile(path) == IF path = RootPath THEN IndexHtml ELSE VerifyHtml

\* C1 as stated: every GET / and every GET /verify is answered 200 with the
\* contents of index.html, respectively verify.html.
C1_EntryPagesAlways ==
    \A c \in Answered :
        (c.req.method = "GET" /\ c.req.path \in {RootPath, VerifyPath} /\
         HasFile(<<EntryFile(c.req.path)>>))
            => /\ c.res.status = 200
               /\ c.res.body = Bytes(fs[<<EntryFile(c.req.path)>>].file)

\* C1 amended: the same for the GET requests that express.json() lets
\* through and that are not conditional requests answered 304, when the
\* entry file exists and, for /verify, the static root has no entry named
\* "verify".
C1_EntryPages ==
    \A c \in Answered :
        (/\ c.req.method = "GET"
         /\ c.req.path \in {RootPath, VerifyPath}
         /\ HasFile(<<EntryFile(c.req.path)>>)
         /\ JsonAccepts(c.req)
         /\ c.req.cond = "none"
         /\ c.req.path = VerifyPath => <<VerifyPlain>> \notin DOMAIN fs)
            => /\ c.res.status = 200
               /\ c.res.body = Bytes(fs[<<EntryFile(c.req.path)>>].file)

C1_Witness ==
    \E c \in Answered, d \in Answered :
        /\ c.req.method = "GET" /\ c.req.path = RootPath
        /\ c.req.body = Body(<<"{", "}">>)
        /\ c.res.status = 200 /\ c.res.body = Bytes(<<1, 2>>)
        /\ d.req.method = "GET" /\ d.req.path = VerifyPath
        /\ d.res.status = 200 /\ d.res.body = Bytes(<<3, 4>>)
        /\ d.ran = <<"cors", "json", "static", "getVerify">>

NoSuchEntry(path) == ~path.slash /\ path.segs \notin DOMAIN fs

C3_CorsOnEveryResponse ==
    \A c \in Answered :
        /\ "Access-Control-Allow-Origin" \in DOMAIN c.res.headers
        /\ c.res.headers["Access-Control-Allow-Origin"] = "*"

C3_Witness ==
    \E c \in Answered, d \in Answered :
        /\ c.res.status = 400 /\ c.req.method = "POST"
        /\ "Access-Control-Allow-Origin" \in DOMAIN c.res.headers
        /\ d.res.status = 204 /\ d.req.method = "OPTIONS"
        /\ "Access-Control-Allow-Origin" \in DOMAIN d.res.headers

RouteLayers == {"static", "getRoot", "getVerify"}

RanNone(c, layers) == \A i \in 1..Len(c.ran) : c.ran[i] \notin layers

\* C4 as stated: a request of any method with a malformed JSON body is
\* answered with a 4xx status by the JSON layer, before the static layer
\* and the routes, and the server goes on serving.
C4_MalformedIs400Always ==
    \A c \in Answered :
        MalformedJson(c.req) =>
            /\ c.res.status \in 400..499
            /\ c.ran = <<"cors", "json", "final">>
            /\ pc = "listening"

\* C4 amended: the same for every method but OPTIONS, which the CORS layer
\* answers (204) before the body is looked at.
C4_MalformedIs400 ==
    /\ \A c \in Answered :
        (MalformedJson(c.req) /\ c.req.method # "OPTIONS") =>
            /\ c.res.status \in 400..499
            /\ c.ran = <<"cors", "json", "final">>
            /\ RanNone(c, RouteLayers)
    /\ \A c \in conns :
        (MalformedJson(c.req) /\ c.req.method # "OPTIONS") => RanNone(c, RouteLayers)
    /\ pc = "listening" /\ bound = Tcp(3000)

\* a malformed GET / has been refused, and a request accepted after it is
\* on its way
C4_Witness ==
    \E c \in Answered, d \in conns :
        /\ c.req.method = "GET" /\ c.req.path = RootPath /\ MalformedJson(c.req)
        /\ c.res.status = 400
        /\ d.at # SentAt /\ d.ran # <<>> /\ ~MalformedJson(d.req)

NamesFile(path) == ~path.slash /\ path.segs # <<>> /\ HasFile(path.segs)

Hidden(path) == \E i \in 1..Len(path.segs) : path.segs[i].dot

ExpectedType(name) ==
    IF name.ext = "css" THEN "text/css"
    ELSE IF name.ext = "html" THEN "text/html"
    ELSE "application/octet-stream"

FileSent(c) ==
    /\ c.res.status = 200
    /\ c.res.body = Bytes(fs[c.req.path.segs].file)
    /\ "Content-Type" \in DOMAIN c.res.headers
    /\ c.res.headers["Content-Type"] = ExpectedType(c.req.path.segs[Len(c.req.path.segs)])

\* C5 as stated: a GET whose path names a file of the static root is
\* answered with the file's bytes and the type of its extension.
C5_StaticFileAlways ==
    \A c \in Answered :
        (c.req.method = "GET" /\ NamesFile(c.req.path)) => FileSent(c)

\* C5 amended: the same for the GET requests that express.json() lets
\* through, that are not conditional requests answered 304, and whose path
\* has no segment starting with a dot (such files are never served).
C5_StaticFile ==
    \A c \in Answered :
        (/\ c.req.method = "GET"
         /\ NamesFile(c.req.path)
         /\ ~Hidden(c.req.path)
         /\ JsonAccepts(c.req)
         /\ c.req.cond = "none") => FileSent(c)

C5_Witness ==
    \E c \in Answered :
        /\ c.req.method = "GET" /\ c.req.path = Path(<<StyleCss>>, FALSE)
        /\ c.res.status = 200 /\ c.res.body = Bytes(<<7, 8>>)
        /\ c.res.headers["Content-Type"] = "text/css"
        /\ c.ran = <<"cors", "json", "static">>

\* C10: no step of the request pipeline changes the configuration, the log,
\* the socket or the static root, and two answers to the same request are
\* the same answer, however the handling of the requests was interleaved.
C10_Stateless ==
    /\ [](\A c \in Answered, d \in Answered : c.req = d.req => c.res = d.res)
    /\ [][pc = "listening" => UNCHANGED <<startupVars, fs>>]_vars

\* the same request is in the pipeline twice, at different layers
C10_Witness ==
    \E c \in Answered, d \in conns :
        /\ c.req = d.req
        /\ c.req.method = "GET" /\ c.req.path = RootPath
        /\ d.at # SentAt /\ d.ran # <<>>
        /\ Cardinality(conns) = MaxConns

====
